---- MODULE Spec2Model ----
(***************************************************************************)
(* The blog application's request handlers (blogicum/blog/views.py), the   *)
(* post query builder (blogicum/blog/mixins.py) and the store they act on. *)
(* One action per request handler; the store is the posts, the comments,   *)
(* the categories and the users.                                           *)
(***************************************************************************)
EXTENDS Integers, Sequences, FiniteSets, TLC

VARIABLES
    now,            \* timezone.now()
    users,          \* username -> [is_superuser, first_name]
    categories,     \* slug -> is_published
    posts,          \* primary key -> [author, is_published, pub_date, category]
    comments,       \* primary key -> [post, author, is_published, text]
    nextPostId,     \* the next primary key of the posts table
    nextCommentId,  \* the next primary key of the comments table
    pageInputs,     \* the ?page= values the clients of this run send
    request,        \* the request being answered, NoRequest between requests
    response        \* the response to it

vars == <<now, users, categories, posts, comments, nextPostId, nextCommentId,
          pageInputs, request, response>>

(* ------------------------------ bounds -------------------------------- *)

\* posts created in a run (primary keys 1..MaxPosts)
MaxPosts == 1
\* comments created in a run (primary keys 1..MaxComments)
MaxComments == 2
\* the clock runs over 0..MaxTime, and so do publication dates
MaxTime == 1
\* the largest listing of the pagination runs
MaxItems == 25

(* ----------------------------- constants ------------------------------ *)

\* Paginator(queryset, 10) of the category and the profile listing
PageSize == 10
\* blog/const.py PAGINATE_BY, the page size of the public list
PAGINATE_BY == 10

Anon == "anon"
Usernames == {"alice", "root"}
Viewers == Usernames \cup {Anon}
\* a username no user has
RequestedUsernames == Usernames \cup {"ghost"}
Slugs == {"pub", "hid"}
\* a slug no category has
RequestedSlugs == Slugs \cup {"nocat"}
Names == {"A", "B"}
Texts == {"x", "y"}
Times == 0..MaxTime
Methods == {"GET", "POST"}
NoPage == "none"
PageParams == {NoPage, "abc", "0", "1", "2", "3", "99"}

(* ------------------------------ helpers ------------------------------- *)

Range(s) == {s[i] : i \in DOMAIN s}

EmptyFn == [x \in {} |-> 0]

Min(a, b) == IF a < b THEN a ELSE b

Max(S) == CHOOSE x \in S : \A y \in S : y <= x

\* ceil(a / b) for a >= 0, b > 0
Ceil(a, b) == (a + b - 1) \div b

\* the ids of S as a sequence, ascending (the primary-key order of the table)
RECURSIVE OrderById(_)
OrderById(S) ==
    IF S = {} THEN <<>>
    ELSE LET m == Max(S) IN Append(OrderById(S \ {m}), m)

\* order_by("-pub_date"): latest publication date first, ties by primary key
RECURSIVE OrderByPubDateDesc(_)
OrderByPubDateDesc(S) ==
    IF S = {} THEN <<>>
    ELSE LET first == CHOOSE p \in S : \A q \in S :
                          \/ posts[p].pub_date > posts[q].pub_date
                          \/ /\ posts[p].pub_date = posts[q].pub_date
                             /\ p <= q
         IN <<first>> \o OrderByPubDateDesc(S \ {first})

(* --------------------------- requests, responses ---------------------- *)

NoLocation == [name |-> "", post_id |-> 0, username |-> ""]
LoginUrl == [name |-> "login", post_id |-> 0, username |-> ""]
PostDetailUrl(post_id) == [name |-> "post_detail", post_id |-> post_id, username |-> ""]
ProfileUrl(username) == [name |-> "profile", post_id |-> 0, username |-> username]

NoRequest ==
    [kind |-> "", method |-> "", user |-> "", post_id |-> 0, comment_id |-> 0,
     slug |-> "", username |-> "", page |-> NoPage]

Req(kind, method, user) == [NoRequest EXCEPT !.kind = kind, !.method = method, !.user = user]

NoResponse ==
    [status |-> 0, location |-> NoLocation,
     object_list |-> <<>>, comment_count |-> EmptyFn, comment_counts |-> EmptyFn,
     page_number |-> 0, num_pages |-> 0, page_items |-> <<>>,
     object |-> 0, comments |-> {}, profile_comment_count |-> 0]

Ok == [NoResponse EXCEPT !.status = 200]
NotFound == [NoResponse EXCEPT !.status = 404]
PermissionDenied == [NoResponse EXCEPT !.status = 403]
Redirect(url) == [NoResponse EXCEPT !.status = 302, !.location = url]

(* ------------------------------- users -------------------------------- *)

is_authenticated(user) == user \in DOMAIN users

is_superuser(user) == user \in DOMAIN users /\ users[user].is_superuser

(* --------------------------- post query builder ----------------------- *)

\* Count("comments", filter=Q(comments__is_published=True)) for one post
PublishedCommentCount(post_id) ==
    Cardinality({c \in DOMAIN comments :
                    comments[c].post = post_id /\ comments[c].is_published})

\* post.comments.count() for one post
CommentsCount(post_id) ==
    Cardinality({c \in DOMAIN comments : comments[c].post = post_id})

\* the filter without its pub_date__lte condition
FilterPublished_IgnoresPubDate(manager) ==
    {p \in manager : posts[p].is_published /\ categories[posts[p].category]}

\* the filter of get_post_queryset: is_published, category__is_published,
\* pub_date__lte = timezone.now()
FilterPublished(manager) ==
    {p \in manager : /\ posts[p].is_published
                     /\ categories[posts[p].category]
                     /\ posts[p].pub_date <= now}

\* the annotation of get_post_queryset: comment_count on every row
AnnotateComments(rows) == [p \in rows |-> PublishedCommentCount(p)]

\* mixins.get_post_queryset: the rows in order and their annotation
get_post_queryset(manager, filter_published, annotate_comments) ==
    LET filtered == IF filter_published THEN FilterPublished(manager) ELSE manager
    IN  IF annotate_comments
        THEN [rows |-> OrderByPubDateDesc(filtered),
              comment_count |-> AnnotateComments(filtered)]
        ELSE [rows |-> OrderById(filtered), comment_count |-> EmptyFn]

(* ------------------------------ pagination ---------------------------- *)

\* int(page) of a query-string value: the values that parse ...
IsIntegerString(page) == page \in {"0", "1", "2", "3", "99"}

\* ... and what they parse to
IntOf(page) ==
    CASE page = "0" -> 0
      [] page = "1" -> 1
      [] page = "2" -> 2
      [] page = "3" -> 3
      [] page = "99" -> 99

\* Paginator.num_pages with orphans = 0 and allow_empty_first_page = True
num_pages(count, per_page) == Ceil(IF count < 1 THEN 1 ELSE count, per_page)

\* Paginator.validate_number: PageNotAnInteger when int() fails, EmptyPage when
\* the number is below 1 or above num_pages
validate_number(page, count, per_page) ==
    IF ~IsIntegerString(page) THEN [error |-> "PageNotAnInteger", number |-> 0]
    ELSE IF IntOf(page) < 1 THEN [error |-> "EmptyPage", number |-> 0]
    ELSE IF IntOf(page) > num_pages(count, per_page)
         THEN [error |-> "EmptyPage", number |-> 0]
    ELSE [error |-> "", number |-> IntOf(page)]

\* Paginator.page: the slice [(number-1)*per_page, number*per_page) of the list
PageSlice(object_list, per_page, number) ==
    SubSeq(object_list, (number - 1) * per_page + 1,
           Min(number * per_page, Len(object_list)))

\* Paginator.get_page, as get_paginated_queryset calls it: page 1 on
\* PageNotAnInteger, the last page on EmptyPage
get_page(object_list, per_page, page) ==
    LET v == validate_number(page, Len(object_list), per_page)
        number == CASE v.error = "PageNotAnInteger" -> 1
                    [] v.error = "EmptyPage" -> num_pages(Len(object_list), per_page)
                    [] OTHER -> v.number
    IN  [number |-> number,
         num_pages |-> num_pages(Len(object_list), per_page),
         items |-> PageSlice(object_list, per_page, number)]

\* MultipleObjectMixin.paginate_queryset, which ListView runs when paginate_by
\* is set: a missing page is page 1, anything invalid raises Http404
paginate_queryset(object_list, per_page, page) ==
    LET given == IF page = NoPage THEN "1" ELSE page
        v == validate_number(given, Len(object_list), per_page)
    IN  IF v.error # "" THEN [found |-> FALSE, number |-> 0, num_pages |-> 0, items |-> <<>>]
        ELSE [found |-> TRUE, number |-> v.number,
              num_pages |-> num_pages(Len(object_list), per_page),
              items |-> PageSlice(object_list, per_page, v.number)]

\* response fields of a page
WithPage(resp, pg) ==
    [resp EXCEPT !.page_number = pg.number, !.num_pages = pg.num_pages,
                 !.page_items = pg.items]

(* ------------------------------ the store ----------------------------- *)

\* a GET carries no form: it is sent with the blank one
GetForm(method, form, forms) == method = "GET" => form = CHOOSE f \in forms : TRUE

PostForms == [is_published : BOOLEAN, pub_date : Times, category : Slugs]
CommentForms == [text : Texts]
ProfileForms == [first_name : Names]

Remove(table, pk) == [k \in DOMAIN table \ {pk} |-> table[k]]

\* Model.save(): an instance without a primary key is inserted under the next
\* key of the table, an instance with one overwrites its row
save(table, nextId, instance) ==
    IF instance.pk = 0
    THEN [table |-> table @@ (nextId :> instance.row), nextId |-> nextId + 1,
          instance |-> [instance EXCEPT !.pk = nextId]]
    ELSE [table |-> [k \in DOMAIN table \cup {instance.pk} |->
                        IF k = instance.pk THEN instance.row ELSE table[k]],
          nextId |-> nextId, instance |-> instance]

\* Comment.post is a foreign key onto Post: the comments of a deleted post go
\* with it
DeletePostCascade(post_id) ==
    [c \in {k \in DOMAIN comments : comments[k].post # post_id} |-> comments[c]]

\* a new comment is published until it is moderated
NewComment(form) ==
    [pk |-> 0, row |-> [post |-> 0, author |-> "", is_published |-> TRUE, text |-> form.text]]

(* --------------------------- access control --------------------------- *)

\* AccessMixin.handle_no_permission, which LoginRequiredMixin and
\* UserPassesTestMixin call: PermissionDenied for an authenticated user, the
\* login page for the others
handle_no_permission(user) ==
    IF is_authenticated(user) THEN PermissionDenied ELSE Redirect(LoginUrl)

\* EditPostView without its own handle_no_permission
EditPostView_handle_no_permission_Inherited(post_id) == PermissionDenied

\* EditPostView.handle_no_permission
EditPostView_handle_no_permission(post_id) == Redirect(PostDetailUrl(post_id))

\* a test_func that lets every user pass
test_func_AnyUser(author, user) == TRUE

\* AuthorRequiredMixin.test_func
test_func(author, user) == author = user

\* EditCommentView.get_object, DeleteCommentView.get_object: the comment with
\* this id on this post, 0 for Http404
get_comment_or_404(comment_id, post_id) ==
    IF comment_id \in DOMAIN comments /\ comments[comment_id].post = post_id
    THEN comment_id ELSE 0

\* UpdateView's success URL of a post
EditPostSuccessUrl(post_id) == PostDetailUrl(post_id)

(* ------------------------------ listings ------------------------------ *)

\* the server takes one request at a time
Idle == request = NoRequest

\* PostListView: the public list
PostListView(user, page) ==
    /\ Idle
    /\ page \in pageInputs
    /\ request' = [Req("index", "GET", user) EXCEPT !.page = page]
    /\ LET qs == get_post_queryset(DOMAIN posts, TRUE, TRUE)
           pg == paginate_queryset(qs.rows, PAGINATE_BY, page)
       IN  response' =
             IF ~pg.found THEN NotFound
             ELSE WithPage([Ok EXCEPT !.object_list = qs.rows,
                                      !.comment_count = qs.comment_count,
                                      !.comment_counts =
                                          [p \in Range(qs.rows) |-> CommentsCount(p)]],
                           pg)
    /\ UNCHANGED <<now, users, categories, posts, comments, nextPostId,
                   nextCommentId, pageInputs>>

\* PostDetailView.get_object
PostDetailView_get_object(user, post_id) ==
    IF post_id \notin DOMAIN posts THEN 0
    ELSE IF /\ ~posts[post_id].is_published
            /\ posts[post_id].author # user
            /\ ~is_superuser(user)
         THEN 0
    ELSE post_id

\* PostDetailView
PostDetailView(user, post_id) ==
    /\ Idle
    /\ request' = [Req("detail", "GET", user) EXCEPT !.post_id = post_id]
    /\ LET post == PostDetailView_get_object(user, post_id)
       IN  response' =
             IF post = 0 THEN NotFound
             ELSE [Ok EXCEPT !.object = post,
                             !.comments = {c \in DOMAIN comments :
                                              /\ comments[c].post = post
                                              /\ comments[c].is_published}]
    /\ UNCHANGED <<now, users, categories, posts, comments, nextPostId,
                   nextCommentId, pageInputs>>

\* get_queryset without the check of category.is_published
CategoryPostListView_get_queryset_AnyCategory(slug) ==
    IF slug \notin DOMAIN categories THEN [found |-> FALSE, rows |-> <<>>]
    ELSE [found |-> TRUE,
          rows |-> OrderById({p \in DOMAIN posts : /\ posts[p].category = slug
                                                   /\ posts[p].is_published
                                                   /\ posts[p].pub_date <= now})]

\* CategoryPostListView.get_queryset
CategoryPostListView_get_queryset(slug) ==
    IF slug \notin DOMAIN categories THEN [found |-> FALSE, rows |-> <<>>]
    ELSE IF ~categories[slug] THEN [found |-> FALSE, rows |-> <<>>]
    ELSE [found |-> TRUE,
          rows |-> OrderById({p \in DOMAIN posts : /\ posts[p].category = slug
                                                   /\ posts[p].is_published
                                                   /\ posts[p].pub_date <= now})]

\* CategoryPostListView
CategoryPostListView(user, slug, page) ==
    /\ Idle
    /\ page \in pageInputs
    /\ request' = [Req("category", "GET", user) EXCEPT !.slug = slug, !.page = page]
    /\ LET qs == CategoryPostListView_get_queryset(slug)
       IN  response' =
             IF ~qs.found THEN NotFound
             ELSE WithPage([Ok EXCEPT !.object_list = qs.rows],
                           get_page(qs.rows, PageSize, page))
    /\ UNCHANGED <<now, users, categories, posts, comments, nextPostId,
                   nextCommentId, pageInputs>>

\* ProfileView.get_queryset
ProfileView_get_queryset(user, username) ==
    IF username \notin DOMAIN users THEN [found |-> FALSE, rows |-> <<>>]
    ELSE [found |-> TRUE,
          rows |-> OrderById({p \in DOMAIN posts : posts[p].author = username})]

\* ProfileView
ProfileView(user, username, page) ==
    /\ Idle
    /\ page \in pageInputs
    /\ request' = [Req("profile", "GET", user) EXCEPT !.username = username, !.page = page]
    /\ LET qs == ProfileView_get_queryset(user, username)
       IN  response' =
             IF ~qs.found THEN NotFound
             ELSE WithPage([Ok EXCEPT
                               !.object_list = qs.rows,
                               !.profile_comment_count =
                                   Cardinality({c \in DOMAIN comments :
                                       posts[comments[c].post].author = username})],
                           get_page(qs.rows, PageSize, page))
    /\ UNCHANGED <<now, users, categories, posts, comments, nextPostId,
                   nextCommentId, pageInputs>>

(* ------------------------------- posts -------------------------------- *)

\* CreatePostView
CreatePostView(user, method, form) ==
    /\ Idle
    /\ GetForm(method, form, PostForms)
    /\ (method = "POST" /\ is_authenticated(user)) => nextPostId <= MaxPosts
    /\ request' = Req("create_post", method, user)
    /\ IF ~is_authenticated(user)
       THEN /\ response' = handle_no_permission(user)
            /\ UNCHANGED <<posts, nextPostId>>
       ELSE IF method = "GET"
       THEN /\ response' = Ok
            /\ UNCHANGED <<posts, nextPostId>>
       ELSE LET saved == save(posts, nextPostId,
                              [pk |-> 0,
                               row |-> [author |-> user,
                                        is_published |-> form.is_published,
                                        pub_date |-> form.pub_date,
                                        category |-> form.category]])
            IN  /\ posts' = saved.table
                /\ nextPostId' = saved.nextId
                /\ response' = Redirect(ProfileUrl(user))
    /\ UNCHANGED <<now, users, categories, comments, nextCommentId, pageInputs>>

\* EditPostView
EditPostView(user, method, post_id, form) ==
    /\ Idle
    /\ GetForm(method, form, PostForms)
    /\ request' = [Req("edit_post", method, user) EXCEPT !.post_id = post_id]
    /\ IF ~is_authenticated(user)
       THEN /\ response' = EditPostView_handle_no_permission(post_id)
            /\ UNCHANGED posts
       ELSE IF post_id \notin DOMAIN posts
       THEN /\ response' = NotFound
            /\ UNCHANGED posts
       ELSE IF ~test_func(posts[post_id].author, user)
       THEN /\ response' = EditPostView_handle_no_permission(post_id)
            /\ UNCHANGED posts
       ELSE IF method = "GET"
       THEN /\ response' = [Ok EXCEPT !.object = post_id]
            /\ UNCHANGED posts
       ELSE /\ posts' = save(posts, nextPostId,
                             [pk |-> post_id,
                              row |-> [author |-> posts[post_id].author,
                                       is_published |-> form.is_published,
                                       pub_date |-> form.pub_date,
                                       category |-> form.category]]).table
            /\ response' = Redirect(EditPostSuccessUrl(post_id))
    /\ UNCHANGED <<now, users, categories, comments, nextPostId, nextCommentId,
                   pageInputs>>

\* DeletePostView
DeletePostView(user, method, post_id) ==
    /\ Idle
    /\ request' = [Req("delete_post", method, user) EXCEPT !.post_id = post_id]
    /\ IF ~is_authenticated(user)
       THEN /\ response' = handle_no_permission(user)
            /\ UNCHANGED <<posts, comments>>
       ELSE IF post_id \notin DOMAIN posts
       THEN /\ response' = NotFound
            /\ UNCHANGED <<posts, comments>>
       ELSE IF ~test_func(posts[post_id].author, user)
       THEN /\ response' = handle_no_permission(user)
            /\ UNCHANGED <<posts, comments>>
       ELSE IF method = "GET"
       THEN /\ response' = [Ok EXCEPT !.object = post_id]
            /\ UNCHANGED <<posts, comments>>
       ELSE /\ posts' = Remove(posts, post_id)
            /\ comments' = DeletePostCascade(post_id)
            /\ response' = Redirect(ProfileUrl(user))
    /\ UNCHANGED <<now, users, categories, nextPostId, nextCommentId, pageInputs>>

(* ------------------------------- users -------------------------------- *)

\* EditProfileView
EditProfileView(user, method, form) ==
    /\ Idle
    /\ GetForm(method, form, ProfileForms)
    /\ request' = Req("edit_profile", method, user)
    /\ IF ~is_authenticated(user)
       THEN /\ response' = handle_no_permission(user)
            /\ UNCHANGED users
       ELSE IF method = "GET"
       THEN /\ response' = Ok
            /\ UNCHANGED users
       ELSE /\ users' = [users EXCEPT ![user].first_name = form.first_name]
            /\ response' = Redirect(ProfileUrl(user))
    /\ UNCHANGED <<now, categories, posts, comments, nextPostId, nextCommentId,
                   pageInputs>>

(* ------------------------------ comments ------------------------------ *)

\* form_valid whose second save is of a fresh instance
AddCommentView_form_valid_InsertsTwice(user, post_id, form) ==
    IF post_id \notin DOMAIN posts
    THEN [response |-> NotFound, comments |-> comments, nextCommentId |-> nextCommentId]
    ELSE LET comment == [NewComment(form) EXCEPT !.row.post = post_id,
                                                 !.row.author = user]
             first == save(comments, nextCommentId, comment)
             second == save(first.table, first.nextId, comment)
         IN  [response |-> Redirect(PostDetailUrl(post_id)),
              comments |-> second.table, nextCommentId |-> second.nextId]

\* AddCommentView.form_valid: the comment is saved, and the parent's form_valid
\* saves the form's instance, the same comment, again
AddCommentView_form_valid(user, post_id, form) ==
    IF post_id \notin DOMAIN posts
    THEN [response |-> NotFound, comments |-> comments, nextCommentId |-> nextCommentId]
    ELSE LET comment == [NewComment(form) EXCEPT !.row.post = post_id,
                                                 !.row.author = user]
             first == save(comments, nextCommentId, comment)
             second == save(first.table, first.nextId, first.instance)
         IN  [response |-> Redirect(PostDetailUrl(post_id)),
              comments |-> second.table, nextCommentId |-> second.nextId]

\* AddCommentView
AddCommentView(user, method, post_id, form) ==
    /\ Idle
    /\ GetForm(method, form, CommentForms)
    /\ (method = "POST" /\ is_authenticated(user) /\ post_id \in DOMAIN posts)
          => nextCommentId <= MaxComments
    /\ request' = [Req("add_comment", method, user) EXCEPT !.post_id = post_id]
    /\ IF ~is_authenticated(user)
       THEN /\ response' = handle_no_permission(user)
            /\ UNCHANGED <<comments, nextCommentId>>
       ELSE IF method = "GET"
       THEN /\ response' = Ok
            /\ UNCHANGED <<comments, nextCommentId>>
       ELSE LET done == AddCommentView_form_valid(user, post_id, form)
            IN  /\ response' = done.response
                /\ comments' = done.comments
                /\ nextCommentId' = done.nextCommentId
    /\ UNCHANGED <<now, users, categories, posts, nextPostId, pageInputs>>

\* EditCommentView
EditCommentView(user, method, post_id, comment_id, form) ==
    /\ Idle
    /\ GetForm(method, form, CommentForms)
    /\ request' = [Req("edit_comment", method, user) EXCEPT
                        !.post_id = post_id, !.comment_id = comment_id]
    /\ LET comment == get_comment_or_404(comment_id, post_id)
       IN  IF ~is_authenticated(user)
           THEN /\ response' = handle_no_permission(user)
                /\ UNCHANGED comments
           ELSE IF comment = 0
           THEN /\ response' = NotFound
                /\ UNCHANGED comments
           ELSE IF ~test_func(comments[comment].author, user)
           THEN /\ response' = handle_no_permission(user)
                /\ UNCHANGED comments
           ELSE IF method = "GET"
           THEN /\ response' = [Ok EXCEPT !.object = comment]
                /\ UNCHANGED comments
           ELSE /\ comments' = save(comments, nextCommentId,
                                    [pk |-> comment,
                                     row |-> [comments[comment] EXCEPT
                                                 !.text = form.text]]).table
                /\ response' = Redirect(PostDetailUrl(post_id))
    /\ UNCHANGED <<now, users, categories, posts, nextPostId, nextCommentId,
                   pageInputs>>

\* DeleteCommentView
DeleteCommentView(user, method, post_id, comment_id) ==
    /\ Idle
    /\ request' = [Req("delete_comment", method, user) EXCEPT
                        !.post_id = post_id, !.comment_id = comment_id]
    /\ LET comment == get_comment_or_404(comment_id, post_id)
       IN  IF ~is_authenticated(user)
           THEN /\ response' = handle_no_permission(user)
                /\ UNCHANGED comments
           ELSE IF comment = 0
           THEN /\ response' = NotFound
                /\ UNCHANGED comments
           ELSE IF ~test_func(comments[comment].author, user)
           THEN /\ response' = handle_no_permission(user)
                /\ UNCHANGED comments
           ELSE IF method = "GET"
           THEN /\ response' = [Ok EXCEPT !.object = comment]
                /\ UNCHANGED comments
           ELSE /\ comments' = Remove(comments, comment)
                /\ response' = Redirect(PostDetailUrl(post_id))
    /\ UNCHANGED <<now, users, categories, posts, nextPostId, nextCommentId,
                   pageInputs>>

(* ---------------------------- environment ----------------------------- *)

\* a moderator sets a comment's is_published flag (the views never do)
ModerateComment(comment_id, flag) ==
    /\ Idle
    /\ comment_id \in DOMAIN comments
    /\ request' = [Req("moderate_comment", "POST", "root") EXCEPT
                        !.comment_id = comment_id]
    /\ comments' = [comments EXCEPT ![comment_id].is_published = flag]
    /\ response' = Ok
    /\ UNCHANGED <<now, users, categories, posts, nextPostId, nextCommentId,
                   pageInputs>>

\* timezone.now() advances
Tick ==
    /\ Idle
    /\ now < MaxTime
    /\ now' = now + 1
    /\ UNCHANGED <<request, response, users, categories, posts, comments,
                   nextPostId, nextCommentId, pageInputs>>

(* --------------------------- specifications --------------------------- *)

\* the primary keys a run hands out; a key names no row before its row is
\* created and after it is deleted
PostIds == 1..MaxPosts
CommentIds == 1..MaxComments
\* the post ids of a comment's URL: one more, so that a comment can be asked
\* for under a post it is not on
UrlPostIds == 1..(MaxPosts + 1)

InitUsers ==
    [u \in Usernames |-> [is_superuser |-> (u = "root"), first_name |-> "A"]]

InitCategories == [s \in Slugs |-> (s = "pub")]

Init ==
    /\ now = 0
    /\ users = InitUsers
    /\ categories = InitCategories
    /\ posts = <<>>
    /\ comments = <<>>
    /\ nextPostId = 1
    /\ nextCommentId = 1
    /\ pageInputs = {NoPage}
    /\ request = NoRequest
    /\ response = NoResponse

\* the response is sent; the server waits for the next request
Respond ==
    /\ ~Idle
    /\ request' = NoRequest
    /\ response' = NoResponse
    /\ UNCHANGED <<now, users, categories, posts, comments, nextPostId,
                   nextCommentId, pageInputs>>

\* who may send a request: anyone, once the last response is out
Clients == IF Idle THEN Viewers ELSE {}

\* one request per route, from any client with any input
IndexRequest == \E user \in Clients, page \in PageParams : PostListView(user, page)

PostDetailRequest == \E user \in Clients, post_id \in PostIds : PostDetailView(user, post_id)

CategoryRequest ==
    \E user \in Clients, slug \in RequestedSlugs, page \in PageParams :
        CategoryPostListView(user, slug, page)

ProfileRequest ==
    \E user \in Clients, username \in RequestedUsernames, page \in PageParams :
        ProfileView(user, username, page)

CreatePostRequest ==
    \E user \in Clients, method \in Methods, form \in PostForms :
        CreatePostView(user, method, form)

EditPostRequest ==
    \E user \in Clients, method \in Methods, post_id \in PostIds, form \in PostForms :
        EditPostView(user, method, post_id, form)

DeletePostRequest ==
    \E user \in Clients, method \in Methods, post_id \in PostIds :
        DeletePostView(user, method, post_id)

EditProfileRequest ==
    \E user \in Clients, method \in Methods, form \in ProfileForms :
        EditProfileView(user, method, form)

AddCommentRequest ==
    \E user \in Clients, method \in Methods, post_id \in PostIds, form \in CommentForms :
        AddCommentView(user, method, post_id, form)

EditCommentRequest ==
    \E user \in Clients, method \in Methods, post_id \in UrlPostIds,
       comment_id \in CommentIds, form \in CommentForms :
        EditCommentView(user, method, post_id, comment_id, form)

DeleteCommentRequest ==
    \E user \in Clients, method \in Methods, post_id \in UrlPostIds,
       comment_id \in CommentIds :
        DeleteCommentView(user, method, post_id, comment_id)

ModerateRequest ==
    \E moderator \in Clients \cap {"root"}, comment_id \in CommentIds, flag \in BOOLEAN :
        ModerateComment(comment_id, flag)

Next ==
    \/ IndexRequest
    \/ PostDetailRequest
    \/ CategoryRequest
    \/ ProfileRequest
    \/ CreatePostRequest
    \/ EditPostRequest
    \/ DeletePostRequest
    \/ EditProfileRequest
    \/ AddCommentRequest
    \/ EditCommentRequest
    \/ DeleteCommentRequest
    \/ ModerateRequest
    \/ Tick
    \/ Respond

Spec == Init /\ [][Next]_vars

\* the posts alone: the requests that read or write posts, and the clock
NextPosts ==
    \/ IndexRequest
    \/ PostDetailRequest
    \/ CategoryRequest
    \/ ProfileRequest
    \/ CreatePostRequest
    \/ EditPostRequest
    \/ DeletePostRequest
    \/ Tick
    \/ Respond

SpecPosts == Init /\ [][NextPosts]_vars

\* the pagination runs: a store of n published posts of one author in one
\* published category, and listing requests with every page parameter
InitPage ==
    /\ now = 0
    /\ users = InitUsers
    /\ categories = InitCategories
    /\ \E n \in 0..MaxItems :
          /\ posts = [p \in 1..n |-> [author |-> "alice", is_published |-> TRUE,
                                      pub_date |-> 0, category |-> "pub"]]
          /\ nextPostId = n + 1
    /\ comments = <<>>
    /\ nextCommentId = 1
    /\ pageInputs = PageParams
    /\ request = NoRequest
    /\ response = NoResponse

NextPage ==
    \/ IndexRequest
    \/ CategoryRequest
    \/ ProfileRequest
    \/ Respond

SpecPage == InitPage /\ [][NextPage]_vars

(* ------------------------------- claims ------------------------------- *)

\* the published predicate of a post: published, in a published category, and
\* not dated in the future
PublishedPredicate(p) ==
    /\ posts[p].is_published
    /\ categories[posts[p].category]
    /\ posts[p].pub_date <= now

\* the number of published comments on a post
NumPublishedComments(p) ==
    Cardinality({c \in DOMAIN comments : comments[c].post = p /\ comments[c].is_published})

\* the request req is an edit or a delete, by an authenticated user, of an
\* existing post or comment that user is not the author of
NonAuthorTarget(req) ==
    /\ req.user \in DOMAIN users
    /\ \/ /\ req.kind \in {"edit_post", "delete_post"}
          /\ req.post_id \in DOMAIN posts
          /\ posts[req.post_id].author # req.user
       \/ /\ req.kind \in {"edit_comment", "delete_comment"}
          /\ req.comment_id \in DOMAIN comments
          /\ comments[req.comment_id].post = req.post_id
          /\ comments[req.comment_id].author # req.user

\* C1: a post is in the result set of the public list if and only if it is
\* published, its category is published and its pub_date is not after now.
C1_PublicListIsPublished ==
    (request.kind = "index" /\ response.status = 200) =>
        \A p \in DOMAIN posts :
            p \in Range(response.object_list) <=> PublishedPredicate(p)

\* C1's case: the public list shows a post whose pub_date the clock has reached
C1_Witness ==
    /\ request.kind = "index"
    /\ now = 1
    /\ \E p \in DOMAIN posts : posts[p].pub_date = 1 /\ p \in Range(response.object_list)

C3_DetailFollowsVisibility ==
    request.kind = "detail" =>
        /\ request.post_id \notin DOMAIN posts => response.status = 404
        /\ (/\ request.post_id \in DOMAIN posts
            /\ posts[request.post_id].author # request.user
            /\ ~is_superuser(request.user)) =>
               IF PublishedPredicate(request.post_id)
               THEN response.status = 200 /\ response.object = request.post_id
               ELSE response.status = 404

\* C4: a post of user U is in the profile listing of U requested by V if and
\* only if V is U or the post satisfies the published predicate.
C4_ProfileListing ==
    (request.kind = "profile" /\ request.username \in DOMAIN users) =>
        /\ response.status = 200
        /\ \A p \in DOMAIN posts :
               posts[p].author = request.username =>
                   (p \in Range(response.object_list) <=>
                       (request.user = request.username \/ PublishedPredicate(p)))

\* C5: for every post of the public list, the comment_count annotation and the
\* comment_counts entry both equal the number of published comments on it.
C5_CommentCounts ==
    (request.kind = "index" /\ response.status = 200) =>
        \A p \in Range(response.object_list) :
            /\ response.comment_count[p] = NumPublishedComments(p)
            /\ response.comment_counts[p] = NumPublishedComments(p)

ProtectedKinds ==
    {"create_post", "edit_post", "delete_post", "add_comment", "edit_comment",
     "delete_comment", "edit_profile"}

\* C6: a request of an unauthenticated viewer to a protected action is answered
\* with a redirect to the login page and leaves posts, comments and users as
\* they are.
C6_AnonymousGoesToLogin ==
    [][(request'.kind \in ProtectedKinds /\ request'.user \notin DOMAIN users) =>
           /\ response' = Redirect(LoginUrl)
           /\ posts' = posts
           /\ comments' = comments
           /\ users' = users]_vars

\* the page the claim expects for a page parameter, of `pages` pages: page 1
\* for none, a non-numeric one or 0, the last page beyond the last
ClaimedPage(page, pages) ==
    IF ~IsIntegerString(page) \/ page = "0" THEN 1
    ELSE IF IntOf(page) > pages THEN pages
    ELSE IntOf(page)

\* C7: a listing that exists is answered with pages of 10 items, ceil(n/10) of
\* them, and with the page the parameter names: the last page for a number
\* beyond it, page 1 for 0 and for a non-numeric value.
C7_Pagination ==
    (/\ request.kind \in {"index", "category", "profile"}
     /\ request.kind = "category" => request.slug \in DOMAIN categories /\ categories[request.slug]
     /\ request.kind = "profile" => request.username \in DOMAIN users) =>
        /\ response.status = 200
        /\ LET n == Len(response.object_list)
               pages == IF n = 0 THEN response.num_pages ELSE Ceil(n, 10)
               k == ClaimedPage(request.page, pages)
           IN  /\ response.num_pages = pages
               /\ response.page_number = k
               /\ response.page_items =
                      SubSeq(response.object_list, 10 * (k - 1) + 1, Min(10 * k, n))

\* C8: for an authenticated viewer who is not the author of the target, a post
\* edit request is answered with a redirect to the post's detail page, and a
\* post delete, comment edit or comment delete request with permission denied.
C8_DenialResponses ==
    [][NonAuthorTarget(request') =>
           IF request'.kind = "edit_post"
           THEN response' = Redirect(PostDetailUrl(request'.post_id))
           ELSE response'.status = 403]_vars

\* C8's case: an authenticated user who is not the author has posted an edit of
\* a post and is sent to its detail page
C8_Witness ==
    /\ request.kind = "edit_post"
    /\ request.method = "POST"
    /\ request.user \in DOMAIN users
    /\ request.post_id \in DOMAIN posts
    /\ posts[request.post_id].author # request.user
    /\ response.status = 302
    /\ response.location.name = "post_detail"

\* C9: a category listing request returns 404 when no category has the slug or
\* the category is unpublished, and no category listing returns a post of an
\* unpublished category.
C9_UnpublishedCategoryNotFound ==
    request.kind = "category" =>
        /\ (request.slug \notin DOMAIN categories \/ ~categories[request.slug]) =>
               response.status = 404
        /\ \A p \in Range(response.object_list) : categories[posts[p].category]

\* C9's case: the listing of an unpublished category that holds a published
\* post dated in the past was asked for
C9_Witness ==
    /\ request.kind = "category"
    /\ request.slug \in DOMAIN categories
    /\ ~categories[request.slug]
    /\ \E p \in DOMAIN posts : /\ posts[p].category = request.slug
                               /\ posts[p].is_published
                               /\ posts[p].pub_date <= now
    /\ response.status = 404

\* C10: a POST of a comment by an authenticated user adds exactly one comment,
\* of that user on that post, and changes no other when the post exists; it
\* returns 404 and adds none when the post does not exist.
C10_AddsExactlyOneComment ==
    [][(/\ request'.kind = "add_comment"
        /\ request'.method = "POST"
        /\ request'.user \in DOMAIN users) =>
           IF request'.post_id \in DOMAIN posts
           THEN /\ response' = Redirect(PostDetailUrl(request'.post_id))
                /\ \E c \in DOMAIN comments' \ DOMAIN comments :
                       /\ DOMAIN comments' = DOMAIN comments \cup {c}
                       /\ comments'[c].author = request'.user
                       /\ comments'[c].post = request'.post_id
                /\ \A k \in DOMAIN comments : comments'[k] = comments[k]
           ELSE /\ response'.status = 404
                /\ comments' = comments]_vars

\* C10's case: a second comment has been added to a post
C10_Witness ==
    /\ request.kind = "add_comment"
    /\ request.method = "POST"
    /\ response.status = 302
    /\ Cardinality(DOMAIN comments) = 2

====
